---- MODULE Spec2Model ----
(***************************************************************************)
(* Model of mcp-diagram-server: the HTTP REST endpoints, the JSON-RPC      *)
(* endpoint POST /sse, the built-in JSON-RPC stdio loop (run_mcp_mode) and *)
(* the stdio wrapper (mcp_stdio_wrapper.main) that proxies to the HTTP     *)
(* server.  A JSON object is a record; a key that the object does not hold *)
(* is ABSENT, and Python's None (JSON null) is NULL.                       *)
(***************************************************************************)
EXTENDS Integers, Sequences, FiniteSets, TLC

VARIABLES
    mode,       \* which process was started: "mcp", "http" or "wrapper"
    pc,         \* "reading"/"serving", "crashed" (unhandled exception), "eof"
    nread,      \* stdio: how many input lines have gone by (read, or left unread)
    line,       \* the stdin line or HTTP request body handled last
    endpoint,   \* the HTTP endpoint hit last; "stdin" for a line the loop read,
                \* "unread" for a line that reached a loop that had stopped
    stdout,     \* the responses printed while handling that line
    http,       \* the HTTP response to that request
    calls,      \* the renderer adapters invoked while handling it
    outcome,    \* what the invoked adapter did (NoOutcome when none was)
    upstream,   \* wrapper only: how its HTTP request to the server ended
    enc_data,   \* the bytes handed to _plantuml_encode
    enc_text,   \* the diagram handed to plantuml_text_to_server_key
    enc_key,    \* the characters the encoder returned
    encoded,    \* which encoder function ran: "none", "bytes" or "text"
    mm,         \* the render_mermaid calls in progress, one record per call
    fs,         \* the temporary directories on disk, by name
    tool_in,        \* the tool descriptor handed to the schema builders
    server_props,   \* what build_tool_schema returned for it
    wrapper_props,  \* what _build_properties_from_tool returned for it
    built,          \* which of the two builders have run
    gv          \* the render_graphviz call in progress

servervars == <<mode, pc, nread, line, endpoint, stdout, http, calls, outcome, upstream>>
encvars == <<enc_data, enc_text, enc_key, encoded>>
mermaidvars == <<mm, fs>>
schemavars == <<tool_in, server_props, wrapper_props, built>>
graphvizvars == <<gv>>
vars == <<servervars, encvars, mermaidvars, schemavars, graphvizvars>>

\* ---------------------------------------------------------------- bounds
MaxLines == 2

\* ------------------------------------------------------------ JSON values
ABSENT == "<absent>"
NULL == "<null>"

\* dict.get(key, default) on a key whose value is v (ABSENT when missing)
Get(v, default) == IF v = ABSENT THEN default ELSE v

\* mutant: only None counts as missing (`if text is None`)
Falsy_none(v) == v = NULL

\* mutant: only the empty string counts as missing (`if text == ""`)
Falsy_mut(v) == v = ""

\* Python truthiness of the values a `text` argument takes here
Falsy(v) == v \in {NULL, ""}

Methods == {"initialize", "notifications/initialized", "tools/list",
            "tools/call", "ping"}
ToolNames == <<"plantuml.render", "graphviz.render", "mermaid.render">>
\* mutant: the final `else` is lost and an unknown name falls into a branch
KnownTools_mut == {ToolNames[i] : i \in 1..Len(ToolNames)} \cup {"nonexistent.tool"}

\* the names the if/elif chains of the dispatchers accept
KnownTools == {ToolNames[i] : i \in 1..Len(ToolNames)}

\* ----------------------------------------------------------- input domain
\* raw lines that are not a JSON object, as they stand after line.strip()
RawTexts == {"", "{bad", "NaN", "null", "false", "0", "[]",
             "true", "5", "\"s\"", "[1]"}

MethodIn == Methods \cup {ABSENT, "nonexistent/method"}
IdIn == {ABSENT, "7"}
NameIn == KnownTools \cup {ABSENT, "nonexistent.tool"}
TextIn == {ABSENT, "", "T"}
FormatIn == {ABSENT, "svg", "png", "gif"}
DotIn == {ABSENT, "D"}

\* the `arguments` value: missing, not a JSON object, or an object
NoArgs(shape) == [shape |-> shape, text |-> ABSENT, format |-> ABSENT, dot |-> ABSENT]
ArgsIn ==
    {NoArgs("absent"), NoArgs("notdict")}
    \cup [shape : {"dict"}, text : TextIn, format : FormatIn, dot : {ABSENT}]
    \cup [shape : {"dict"}, text : {ABSENT}, format : FormatIn, dot : DotIn]

\* the `params` value: missing, not a JSON object (null), or an object
NoParams(shape) == [shape |-> shape, name |-> ABSENT, arguments |-> NoArgs("absent")]
ParamsIn ==
    {NoParams("absent"), NoParams("null")}
    \cup [shape : {"obj"}, name : NameIn, arguments : ArgsIn]

\* a JSON object on a line; params are varied for tools/call only
ObjLines ==
    [kind : {"obj"}, raw : {""}, method : {"tools/call"}, id : IdIn, params : ParamsIn]
    \cup [kind : {"obj"}, raw : {""}, method : MethodIn \ {"tools/call"}, id : IdIn,
          params : {NoParams("absent"), NoParams("null"),
                    [shape |-> "obj", name |-> ABSENT, arguments |-> NoArgs("absent")]}]

RawLine(t) == [kind |-> "raw", raw |-> t, method |-> ABSENT, id |-> ABSENT,
               params |-> NoParams("absent")]
Lines == {RawLine(t) : t \in RawTexts} \cup ObjLines
NoLine == RawLine("<none>")

\* the body of POST /call_tool
CallBodies == [name : NameIn, arguments : ArgsIn]

\* what a renderer adapter does when invoked: returns bytes or raises
Outcomes == {[ok |-> TRUE, data |-> <<60, 115>>, err |-> ""],
             [ok |-> TRUE, data |-> <<137>>, err |-> ""],
             [ok |-> TRUE, data |-> <<251, 255, 191>>, err |-> ""],
             [ok |-> FALSE, data |-> <<>>, err |-> "boom"]}
NoOutcome == [ok |-> FALSE, data |-> <<>>, err |-> "<not invoked>"]

\* ---------------------------------------------------------- json.loads
\* json.loads(line.strip()): JSONDecodeError, or the parsed value.  Python
\* accepts the literal NaN; a parsed non-object is kept by its truthiness.
json_loads(l) ==
    IF l.kind = "obj" THEN [err |-> FALSE, isdict |-> TRUE, truthy |-> TRUE]
    ELSE IF l.raw \in {"", "{bad"} THEN [err |-> TRUE, isdict |-> FALSE, truthy |-> FALSE]
    ELSE [err |-> FALSE, isdict |-> FALSE,
          truthy |-> l.raw \in {"NaN", "true", "5", "\"s\"", "[1]"}]

\* whether the text is JSON at all (RFC 8259), whatever json.loads makes of it
WellFormedJSON(l) == l.kind = "obj" \/ l.raw \in {"null", "false", "0", "[]", "true", "5", "\"s\"", "[1]"}

\* `not line.strip()`
Blank(l) == l.kind = "raw" /\ l.raw = ""

\* ------------------------------------------------------- base64.b64encode
\* mutant: the URL-safe alphabet of base64.urlsafe_b64encode
B64Table_mut == <<
    "A", "B", "C", "D", "E", "F", "G", "H", "I", "J", "K", "L", "M", "N", "O", "P",
    "Q", "R", "S", "T", "U", "V", "W", "X", "Y", "Z", "a", "b", "c", "d", "e", "f",
    "g", "h", "i", "j", "k", "l", "m", "n", "o", "p", "q", "r", "s", "t", "u", "v",
    "w", "x", "y", "z", "0", "1", "2", "3", "4", "5", "6", "7", "8", "9", "-", "_" >>

B64Table == <<
    "A", "B", "C", "D", "E", "F", "G", "H", "I", "J", "K", "L", "M", "N", "O", "P",
    "Q", "R", "S", "T", "U", "V", "W", "X", "Y", "Z", "a", "b", "c", "d", "e", "f",
    "g", "h", "i", "j", "k", "l", "m", "n", "o", "p", "q", "r", "s", "t", "u", "v",
    "w", "x", "y", "z", "0", "1", "2", "3", "4", "5", "6", "7", "8", "9", "+", "/" >>

RECURSIVE b64encode(_)
b64encode(b) ==
    IF Len(b) = 0 THEN <<>>
    ELSE IF Len(b) = 1 THEN
        <<B64Table[(b[1] \div 4) + 1], B64Table[((b[1] % 4) * 16) + 1], "=", "=">>
    ELSE IF Len(b) = 2 THEN
        <<B64Table[(b[1] \div 4) + 1],
          B64Table[((b[1] % 4) * 16) + (b[2] \div 16) + 1],
          B64Table[((b[2] % 16) * 4) + 1], "=">>
    ELSE
        <<B64Table[(b[1] \div 4) + 1],
          B64Table[((b[1] % 4) * 16) + (b[2] \div 16) + 1],
          B64Table[((b[2] % 16) * 4) + (b[3] \div 64) + 1],
          B64Table[(b[3] % 64) + 1]>> \o b64encode(SubSeq(b, 4, Len(b)))

\* ------------------------------------------------------- tool registry
\* An argument description is kept with the type words ("string", "int",
\* "number", "bool") that occur in its lower-cased text.
Desc(text, words) == [text |-> text, words |-> words]

get_tools_list == <<
    [name |-> "plantuml.render",
     description |-> "Render PlantUML diagram text to image",
     arguments |-> [text |-> Desc("string (PlantUML script)", {"string"}),
                    format |-> Desc("string, 'svg' or 'png' (optional, default 'svg')", {"string"})]],
    [name |-> "graphviz.render",
     description |-> "Render Graphviz DOT source to image",
     arguments |-> [text |-> Desc("string (Graphviz DOT source)", {"string"}),
                    format |-> Desc("string, 'png' or 'svg' (optional, default 'png')", {"string"})]],
    [name |-> "mermaid.render",
     description |-> "Render Mermaid diagram to image",
     arguments |-> [text |-> Desc("string (Mermaid source)", {"string"}),
                    format |-> Desc("string, 'png' or 'svg' (optional, default 'png')", {"string"})]] >>

build_tool_schema(tool) ==
    [a \in DOMAIN tool.arguments |->
        [type |-> IF "string" \in tool.arguments[a].words \/ a = "format" THEN "string"
                  ELSE IF "int" \in tool.arguments[a].words
                          \/ "number" \in tool.arguments[a].words THEN "number"
                  ELSE IF "bool" \in tool.arguments[a].words THEN "boolean"
                  ELSE "string",
         description |-> tool.arguments[a].text]]

_build_properties_from_tool(tool) ==
    [a \in DOMAIN tool.arguments |->
        [type |-> IF "string" \in tool.arguments[a].words THEN "string"
                  ELSE IF "int" \in tool.arguments[a].words
                          \/ "number" \in tool.arguments[a].words THEN "number"
                  ELSE IF "bool" \in tool.arguments[a].words THEN "boolean"
                  ELSE "string",
         description |-> tool.arguments[a].text]]

\* --------------------------------------------------- JSON-RPC envelopes
\* a message text: a fixed part and the value formatted into it
Msg(fixed, arg) == [fixed |-> fixed, arg |-> arg]

\* {"jsonrpc": "2.0", "id": id, "result": result}
RpcResult(id, result) ==
    [jsonrpc |-> "2.0", id |-> id, kind |-> "result", result |-> result]

\* {"jsonrpc": "2.0", "id": id, "error": {code, message[, data]}}; data is
\* NULL when the error carries none
RpcError(id, code, message, data) ==
    [jsonrpc |-> "2.0", id |-> id, kind |-> "error",
     error |-> [code |-> code, message |-> message, data |-> data]]

EmptyObject == [keys |-> {}]

InitializeResult ==
    [protocolVersion |-> "2024-11-05",
     capabilities |-> [tools |-> EmptyObject, prompts |-> EmptyObject,
                       resources |-> EmptyObject],
     serverInfo |-> [name |-> "mcp-diagram-server", version |-> "0.1.0"]]

\* mutant: the content type is image/png for "png" only
ContentType_mut(fmt) == IF fmt = "png" THEN "image/png" ELSE "image/svg+xml"

\* ctype = 'image/svg+xml' if fmt == 'svg' else 'image/png'
ContentType(fmt) == IF fmt = "svg" THEN "image/svg+xml" ELSE "image/png"

ContentResult(ctype, data_base64) ==
    [content |-> <<[type |-> "text",
                    text |-> Msg("Diagram rendered successfully as ", ctype)],
                   [type |-> "image", mimeType |-> ctype, data |-> data_base64]>>]

\* ------------------------------------------------------ renderer adapters
\* mutant: every tool defaults to png
DefaultFormat_mut(name) == "png"

\* the default of arguments.get('format', ...) in each branch of the dispatchers
DefaultFormat(name) == IF name = "plantuml.render" THEN "svg" ELSE "png"

Adapter(name) ==
    CASE name = "plantuml.render" -> "render_plantuml"
      [] name = "graphviz.render" -> "render_graphviz"
      [] OTHER -> "render_mermaid"

\* one invocation of a renderer adapter
Invocation(name, text, fmt) == [adapter |-> Adapter(name), text |-> text, format |-> fmt]

\* what a handler did: the responses it wrote, the adapters it invoked, and
\* whether an exception left it unhandled
Handled(out, invoked) == [out |-> out, calls |-> invoked, raised |-> FALSE]
Unhandled == [out |-> <<>>, calls |-> <<>>, raised |-> TRUE]

\* params.get("arguments", {})
ArgumentsOrEmpty(arguments) ==
    IF arguments.shape = "absent" THEN [NoArgs("dict") EXCEPT !.shape = "dict"]
    ELSE arguments

\* --------------------------------------- built-in stdio mode (--mcp)
handle_mcp_initialize(request) ==
    Handled(<<RpcResult(Get(request.id, NULL), InitializeResult)>>, <<>>)

handle_mcp_list_tools(request_id) ==
    Handled(<<RpcResult(request_id,
        [tools |-> [i \in 1..Len(get_tools_list) |->
            [name |-> get_tools_list[i].name,
             description |-> get_tools_list[i].description,
             inputSchema |-> [type |-> "object",
                              properties |-> build_tool_schema(get_tools_list[i])]]]])>>,
        <<>>)

handle_mcp_call_tool(request_id, name, arguments, o) ==
    IF name \in KnownTools THEN
        IF arguments.shape # "dict" THEN
            \* arguments.get raises AttributeError inside the try
            Handled(<<RpcError(request_id, -32603, Msg("Tool execution failed", ""),
                               "AttributeError")>>, <<>>)
        ELSE IF Falsy(Get(arguments.text, NULL)) THEN
            Handled(<<RpcError(request_id, -32602, Msg("text is required for ", name),
                               NULL)>>, <<>>)
        ELSE
            LET text == arguments.text
                fmt == Get(arguments.format, DefaultFormat(name))
                ctype == ContentType(fmt)
            IN  IF o.ok THEN
                    Handled(<<RpcResult(request_id,
                                ContentResult(ctype, b64encode(o.data)))>>,
                            <<Invocation(name, text, fmt)>>)
                ELSE
                    Handled(<<RpcError(request_id, -32603,
                                Msg("Tool execution failed", ""), o.err)>>,
                            <<Invocation(name, text, fmt)>>)
    ELSE
        Handled(<<RpcError(request_id, -32601, Msg("Unknown tool: ", name), NULL)>>, <<>>)

handle_mcp_ping(request_id) ==
    Handled(<<RpcResult(request_id, EmptyObject)>>, <<>>)

\* mutant: an unrecognised method is ignored like a notification
mcp_method_not_found_mut(request_id, method) == Handled(<<>>, <<>>)

\* the final `else` of run_mcp_mode's dispatch
mcp_method_not_found(request_id, method) ==
    Handled(<<RpcError(request_id, -32601, Msg("Method not found: ", method), NULL)>>, <<>>)

\* the body of the loop of run_mcp_mode for one non-blank line
run_mcp_mode_line(l, o) ==
    LET request == json_loads(l) IN
    IF request.err THEN
        Handled(<<RpcError(NULL, -32700, Msg("Parse error", ""), "JSONDecodeError")>>, <<>>)
    ELSE IF ~request.isdict THEN
        \* request.get raises AttributeError; the handler evaluates
        \* request.get("id") again when request is truthy
        IF request.truthy THEN Unhandled
        ELSE Handled(<<RpcError(NULL, -32603, Msg("Internal error", ""),
                                "AttributeError")>>, <<>>)
    ELSE
        LET method == Get(l.method, NULL)
            params == l.params
            request_id == Get(l.id, NULL)
        IN  IF method = "initialize" THEN handle_mcp_initialize(l)
            ELSE IF method = "notifications/initialized" THEN Handled(<<>>, <<>>)
            ELSE IF method = "tools/list" THEN handle_mcp_list_tools(request_id)
            ELSE IF method = "tools/call" THEN
                IF params.shape = "null" THEN
                    \* params.get raises AttributeError
                    Handled(<<RpcError(request_id, -32603, Msg("Internal error", ""),
                                       "AttributeError")>>, <<>>)
                ELSE handle_mcp_call_tool(request_id, Get(params.name, NULL),
                                          ArgumentsOrEmpty(params.arguments), o)
            ELSE IF method = "ping" THEN handle_mcp_ping(request_id)
            ELSE mcp_method_not_found(request_id, method)

\* ----------------------------------------------------- HTTP REST API
\* an HTTP response: the status and the JSON body
HttpResponse(status, body) == [status |-> status, body |-> body]
NoHttp == HttpResponse(0, EmptyObject)

\* what an HTTP handler did: its response and the adapters it invoked
Served(response, invoked) == [response |-> response, calls |-> invoked]

\* POST /list_tools
list_tools == Served(HttpResponse(200, [ok |-> TRUE, tools |-> get_tools_list]), <<>>)

\* CallRequest: name is a str and arguments a dict that defaults to {};
\* the request validation answers 422 before call_tool runs otherwise
CallRequestValid(body) ==
    body.name \notin {ABSENT, NULL} /\ body.arguments.shape # "notdict"

\* mutant: the adapter's exception is not caught and the framework answers 500
call_tool_failed_mut(e) == HttpResponse(500, [detail |-> "Internal Server Error"])

\* `except Exception as e` of call_tool
call_tool_failed(e) == HttpResponse(200, [ok |-> FALSE, error |-> e])

\* POST /call_tool
call_tool(body, o) ==
    IF ~CallRequestValid(body) THEN
        Served(HttpResponse(422, [detail |-> "validation error"]), <<>>)
    ELSE
        LET arguments == ArgumentsOrEmpty(body.arguments) IN
        IF body.name \in KnownTools THEN
            IF Falsy(Get(arguments.text, NULL)) THEN
                Served(HttpResponse(400, [detail |-> "text is required"]), <<>>)
            ELSE
                LET text == arguments.text
                    fmt == Get(arguments.format, DefaultFormat(body.name))
                    ctype == ContentType(fmt)
                IN  IF o.ok THEN
                        Served(HttpResponse(200,
                                 [ok |-> TRUE,
                                  result |-> [content_type |-> ctype,
                                              data_base64 |-> b64encode(o.data)]]),
                               <<Invocation(body.name, text, fmt)>>)
                    ELSE
                        Served(call_tool_failed(o.err),
                               <<Invocation(body.name, text, fmt)>>)
        ELSE
            Served(HttpResponse(404, [detail |-> "tool not found"]), <<>>)

\* ------------------------------------------------- JSON-RPC over POST /sse
handle_sse_initialize(request_id) == RpcResult(request_id, InitializeResult)

handle_sse_list_tools(request_id) ==
    RpcResult(request_id,
        [tools |-> [i \in 1..Len(get_tools_list) |->
            [name |-> get_tools_list[i].name,
             description |-> get_tools_list[i].description,
             inputSchema |-> [type |-> "object",
                              properties |-> build_tool_schema(get_tools_list[i])]]]])

handle_sse_call_tool(request_id, name, arguments, o) ==
    IF name \in KnownTools THEN
        IF arguments.shape # "dict" THEN
            Served(RpcError(request_id, -32603, Msg("Tool execution failed", ""),
                            "AttributeError"), <<>>)
        ELSE IF Falsy(Get(arguments.text, NULL)) THEN
            Served(RpcError(request_id, -32602, Msg("text is required for ", name), NULL),
                   <<>>)
        ELSE
            LET text == arguments.text
                fmt == Get(arguments.format, DefaultFormat(name))
                ctype == ContentType(fmt)
            IN  IF o.ok THEN
                    Served(RpcResult(request_id, ContentResult(ctype, b64encode(o.data))),
                           <<Invocation(name, text, fmt)>>)
                ELSE
                    Served(RpcError(request_id, -32603, Msg("Tool execution failed", ""),
                                    o.err),
                           <<Invocation(name, text, fmt)>>)
    ELSE
        Served(RpcError(request_id, -32601, Msg("Unknown tool: ", name), NULL), <<>>)

handle_sse_ping(request_id) == RpcResult(request_id, EmptyObject)

\* mutant: the notification is answered with an empty JSON-RPC result
sse_initialized_mut == Served(HttpResponse(200, RpcResult(NULL, EmptyObject)), <<>>)

\* notifications/initialized on POST /sse: `response = None`, and the
\* endpoint returns the plain body {"status": "ok"} in place of an envelope
sse_initialized == Served(HttpResponse(200, [status |-> "ok"]), <<>>)

\* POST /sse.  In the handler of an unexpected exception `request` is the
\* HTTP request object, a mapping of the connection scope, which holds no
\* "id": the internal-error envelope carries id null.
mcp_sse_endpoint(l, o) ==
    LET body == json_loads(l) IN
    IF body.err THEN
        Served(HttpResponse(200, RpcError(NULL, -32700, Msg("Parse error", ""), NULL)), <<>>)
    ELSE IF ~body.isdict THEN
        Served(HttpResponse(200, RpcError(NULL, -32603, Msg("Internal error", ""),
                                          "AttributeError")), <<>>)
    ELSE
        LET method == Get(l.method, NULL)
            params == l.params
            request_id == Get(l.id, NULL)
        IN  IF method = "initialize" THEN
                Served(HttpResponse(200, handle_sse_initialize(request_id)), <<>>)
            ELSE IF method = "notifications/initialized" THEN sse_initialized
            ELSE IF method = "tools/list" THEN
                Served(HttpResponse(200, handle_sse_list_tools(request_id)), <<>>)
            ELSE IF method = "tools/call" THEN
                IF params.shape = "null" THEN
                    Served(HttpResponse(200, RpcError(NULL, -32603,
                              Msg("Internal error", ""), "AttributeError")), <<>>)
                ELSE
                    LET h == handle_sse_call_tool(request_id, Get(params.name, NULL),
                                                  ArgumentsOrEmpty(params.arguments), o)
                    IN  Served(HttpResponse(200, h.response), h.calls)
            ELSE IF method = "ping" THEN
                Served(HttpResponse(200, handle_sse_ping(request_id)), <<>>)
            ELSE
                Served(HttpResponse(200, RpcError(request_id, -32601,
                          Msg("Method not found: ", method), NULL)), <<>>)

\* ------------------------------------ stdio wrapper (mcp_stdio_wrapper)
\* how the wrapper's HTTP request to SERVER ends: answered, timed out after
\* the server took it, or never connected
Conns == {"ok", "timeout", "refused"}

handle_initialize(request) ==
    IF request.params.shape = "null" THEN
        \* request.get("params", {}).get raises AttributeError, which main handles
        Handled(<<RpcError(Get(request.id, NULL), -32603, Msg("Internal error", ""),
                           "AttributeError")>>, <<>>)
    ELSE Handled(<<RpcResult(Get(request.id, NULL), InitializeResult)>>, <<>>)

wrapper_list_tools(request_id, conn) ==
    IF conn # "ok" THEN
        Handled(<<RpcError(request_id, -32603, Msg("Connection error", ""),
                           "RequestException")>>, <<>>)
    ELSE
        LET data == list_tools.response.body IN
        IF data.ok THEN
            Handled(<<RpcResult(request_id,
                [tools |-> [i \in 1..Len(data.tools) |->
                    [name |-> data.tools[i].name,
                     description |-> data.tools[i].description,
                     inputSchema |-> [type |-> "object",
                         properties |-> _build_properties_from_tool(data.tools[i])]]]])>>,
                <<>>)
        ELSE
            Handled(<<RpcError(request_id, -32603,
                               Msg("Failed to list tools from server", ""), NULL)>>, <<>>)

wrapper_call_tool(request_id, name, arguments, o, conn) ==
    IF conn = "refused" THEN
        Handled(<<RpcError(request_id, -32603, Msg("Connection error", ""),
                           "RequestException")>>, <<>>)
    ELSE
        LET served == call_tool([name |-> name, arguments |-> arguments], o)
            data == served.response.body
        IN  IF conn = "timeout" THEN
                Handled(<<RpcError(request_id, -32603, Msg("Request timeout", ""), NULL)>>,
                        served.calls)
            ELSE IF "ok" \in DOMAIN data /\ data.ok THEN
                Handled(<<RpcResult(request_id,
                            ContentResult(data.result.content_type,
                                          data.result.data_base64))>>,
                        served.calls)
            ELSE
                Handled(<<RpcError(request_id, -32603,
                            IF "error" \in DOMAIN data THEN Msg(data.error, "")
                            ELSE Msg("Tool execution failed", ""), NULL)>>,
                        served.calls)

handle_ping(request_id) ==
    Handled(<<RpcResult(request_id, EmptyObject)>>, <<>>)

\* the body of the loop of the wrapper's main for one non-blank line
main_line(l, o, conn) ==
    LET request == json_loads(l) IN
    IF request.err THEN
        Handled(<<RpcError(NULL, -32700, Msg("Parse error", ""), "JSONDecodeError")>>, <<>>)
    ELSE IF ~request.isdict THEN
        IF request.truthy THEN Unhandled
        ELSE Handled(<<RpcError(NULL, -32603, Msg("Internal error", ""),
                                "AttributeError")>>, <<>>)
    ELSE
        LET method == Get(l.method, NULL)
            params == l.params
            request_id == Get(l.id, NULL)
        IN  IF method = "initialize" THEN handle_initialize(l)
            ELSE IF method = "notifications/initialized" THEN Handled(<<>>, <<>>)
            ELSE IF method = "tools/list" THEN wrapper_list_tools(request_id, conn)
            ELSE IF method = "tools/call" THEN
                IF params.shape = "null" THEN
                    Handled(<<RpcError(request_id, -32603, Msg("Internal error", ""),
                                       "AttributeError")>>, <<>>)
                ELSE wrapper_call_tool(request_id, Get(params.name, NULL),
                                       ArgumentsOrEmpty(params.arguments), o, conn)
            ELSE IF method = "ping" THEN handle_ping(request_id)
            ELSE Handled(<<RpcError(request_id, -32601,
                                    Msg("Method not found: ", method), NULL)>>, <<>>)

\* whether handling l makes the wrapper send an HTTP request to the server
Proxies(l) ==
    /\ l.kind = "obj"
    /\ \/ l.method = "tools/list"
       \/ l.method = "tools/call" /\ l.params.shape # "null"

ConnsFor(l) == IF Proxies(l) THEN Conns ELSE {"none"}

\* whether handling l invokes a renderer adapter, whose outcome then matters
Renders(l) ==
    /\ l.kind = "obj" /\ l.method = "tools/call" /\ l.params.shape = "obj"
    /\ l.params.name \in KnownTools
    /\ l.params.arguments.shape = "dict"
    /\ ~Falsy(Get(l.params.arguments.text, NULL))

OutcomesFor(l) == IF Renders(l) THEN Outcomes ELSE {NoOutcome}

\* ---------------------------------------------------------------- actions
\* no server process runs
ServerIdle ==
    /\ mode = "none" /\ pc = "none" /\ nread = 0 /\ line = NoLine
    /\ endpoint = "none" /\ stdout = <<>> /\ http = NoHttp
    /\ calls = <<>> /\ outcome = NoOutcome /\ upstream = "none"

\* no encoder call is under way (the server model abstracts the renderers)
EncIdle == enc_data = <<>> /\ enc_text = <<>> /\ enc_key = <<>> /\ encoded = "none"

\* no render_mermaid call is under way and no temporary directory exists
MermaidIdle == mm = <<>> /\ fs = {}

\* no schema builder has been called
SchemaIdle ==
    tool_in = <<>> /\ server_props = <<>> /\ wrapper_props = <<>> /\ built = {}

\* no render_graphviz call is under way
GraphvizIdle == gv = <<>>

Init ==
    /\ mode \in {"mcp", "http", "wrapper"}
    /\ pc = IF mode = "http" THEN "serving" ELSE "reading"
    /\ nread = 0
    /\ line = NoLine
    /\ endpoint = "none"
    /\ stdout = <<>>
    /\ http = NoHttp
    /\ calls = <<>>
    /\ outcome = NoOutcome
    /\ upstream = "none"
    /\ EncIdle /\ MermaidIdle /\ SchemaIdle /\ GraphvizIdle

\* one iteration of `for line in sys.stdin` in run_mcp_mode
McpReadLine ==
    /\ mode = "mcp" /\ pc = "reading" /\ nread < MaxLines
    /\ \E l \in Lines : \E o \in OutcomesFor(l) :
        LET h == IF Blank(l) THEN Handled(<<>>, <<>>) ELSE run_mcp_mode_line(l, o) IN
        /\ line' = l
        /\ stdout' = h.out
        /\ calls' = h.calls
        /\ outcome' = o
        /\ pc' = IF h.raised THEN "crashed" ELSE "reading"
    /\ nread' = nread + 1
    /\ endpoint' = "stdin"
    /\ UNCHANGED <<mode, http, upstream>>
    /\ UNCHANGED <<encvars, mermaidvars, schemavars, graphvizvars>>

\* one iteration of `for line in sys.stdin` in the wrapper's main, with the
\* HTTP server's handling of the request it proxies
WrapperReadLine ==
    /\ mode = "wrapper" /\ pc = "reading" /\ nread < MaxLines
    /\ \E l \in Lines : \E conn \in ConnsFor(l) :
         \E o \in (IF conn \in {"ok", "timeout"} THEN OutcomesFor(l) ELSE {NoOutcome}) :
            LET h == IF Blank(l) THEN Handled(<<>>, <<>>) ELSE main_line(l, o, conn) IN
            /\ line' = l
            /\ stdout' = h.out
            /\ calls' = h.calls
            /\ outcome' = o
            /\ upstream' = conn
            /\ pc' = IF h.raised THEN "crashed" ELSE "reading"
    /\ nread' = nread + 1
    /\ endpoint' = "stdin"
    /\ UNCHANGED <<mode, http>>
    /\ UNCHANGED <<encvars, mermaidvars, schemavars, graphvizvars>>

\* sys.stdin is exhausted: the loop ends and the process exits
StdinEof ==
    /\ mode \in {"mcp", "wrapper"} /\ pc = "reading"
    /\ pc' = "eof"
    /\ UNCHANGED <<mode, nread, line, endpoint, stdout, http, calls, outcome, upstream>>
    /\ UNCHANGED <<encvars, mermaidvars, schemavars, graphvizvars>>

\* an unhandled exception has ended the loop and the process: a line that
\* follows on stdin is never read and nothing is written for it
StdinLineUnread ==
    /\ mode \in {"mcp", "wrapper"} /\ pc = "crashed" /\ nread < MaxLines
    /\ \E l \in Lines : line' = l
    /\ nread' = nread + 1
    /\ endpoint' = "unread"
    /\ stdout' = <<>>
    /\ calls' = <<>>
    /\ outcome' = NoOutcome
    /\ upstream' = "none"
    /\ UNCHANGED <<mode, pc, http>>
    /\ UNCHANGED <<encvars, mermaidvars, schemavars, graphvizvars>>

\* whether a /call_tool body makes the server invoke a renderer adapter
BodyRenders(body) ==
    /\ CallRequestValid(body) /\ body.name \in KnownTools
    /\ ~Falsy(Get(ArgumentsOrEmpty(body.arguments).text, NULL))

\* the line form of a /call_tool body, to record it in `line`
BodyLine(body) ==
    [kind |-> "obj", raw |-> "", method |-> ABSENT, id |-> ABSENT,
     params |-> [shape |-> "obj", name |-> body.name, arguments |-> body.arguments]]

\* the HTTP server answers POST /list_tools
HttpListTools ==
    /\ mode = "http" /\ pc = "serving"
    /\ endpoint' = "/list_tools"
    /\ line' = NoLine
    /\ http' = list_tools.response
    /\ calls' = list_tools.calls
    /\ outcome' = NoOutcome
    /\ UNCHANGED <<mode, pc, nread, stdout, upstream>>
    /\ UNCHANGED <<encvars, mermaidvars, schemavars, graphvizvars>>

\* the HTTP server answers POST /call_tool
HttpCallTool ==
    /\ mode = "http" /\ pc = "serving"
    /\ \E body \in CallBodies :
         \E o \in (IF BodyRenders(body) THEN Outcomes ELSE {NoOutcome}) :
            /\ line' = BodyLine(body)
            /\ http' = call_tool(body, o).response
            /\ calls' = call_tool(body, o).calls
            /\ outcome' = o
    /\ endpoint' = "/call_tool"
    /\ UNCHANGED <<mode, pc, nread, stdout, upstream>>
    /\ UNCHANGED <<encvars, mermaidvars, schemavars, graphvizvars>>

\* the HTTP server answers POST /sse
HttpSse ==
    /\ mode = "http" /\ pc = "serving"
    /\ \E l \in Lines : \E o \in OutcomesFor(l) :
            /\ line' = l
            /\ http' = mcp_sse_endpoint(l, o).response
            /\ calls' = mcp_sse_endpoint(l, o).calls
            /\ outcome' = o
    /\ endpoint' = "/sse"
    /\ UNCHANGED <<mode, pc, nread, stdout, upstream>>
    /\ UNCHANGED <<encvars, mermaidvars, schemavars, graphvizvars>>

Next == McpReadLine \/ WrapperReadLine \/ StdinEof \/ StdinLineUnread \/ HttpListTools \/ HttpCallTool \/ HttpSse

Spec == Init /\ [][Next]_vars

\* ===================================================== the PlantUML encoder
MaxBytes == 3
MaxText == 2

\* a Python int in binary, most significant bit first: bit_buf has no width
Bits8(b) == [i \in 1..8 |-> (b \div 2^(8 - i)) % 2]
ShiftLeft(bits, k) == bits \o [i \in 1..k |-> 0]
ShiftRight(bits, k) == IF k >= Len(bits) THEN <<>> ELSE SubSeq(bits, 1, Len(bits) - k)

RECURSIVE BitsValue(_)
BitsValue(bits) ==
    IF bits = <<>> THEN 0
    ELSE 2 * BitsValue(SubSeq(bits, 1, Len(bits) - 1)) + bits[Len(bits)]

\* x & 0x3F
And3F(bits) ==
    BitsValue(IF Len(bits) <= 6 THEN bits ELSE SubSeq(bits, Len(bits) - 5, Len(bits)))

\* mutant: the alphabet of standard base64 at the last two places
_ENCODE_TABLE_mut ==
    <<"0", "1", "2", "3", "4", "5", "6", "7", "8", "9",
      "A", "B", "C", "D", "E", "F", "G", "H", "I", "J", "K", "L", "M",
      "N", "O", "P", "Q", "R", "S", "T", "U", "V", "W", "X", "Y", "Z",
      "a", "b", "c", "d", "e", "f", "g", "h", "i", "j", "k", "l", "m",
      "n", "o", "p", "q", "r", "s", "t", "u", "v", "w", "x", "y", "z",
      "+", "/">>

_ENCODE_TABLE ==
    <<"0", "1", "2", "3", "4", "5", "6", "7", "8", "9",
      "A", "B", "C", "D", "E", "F", "G", "H", "I", "J", "K", "L", "M",
      "N", "O", "P", "Q", "R", "S", "T", "U", "V", "W", "X", "Y", "Z",
      "a", "b", "c", "d", "e", "f", "g", "h", "i", "j", "k", "l", "m",
      "n", "o", "p", "q", "r", "s", "t", "u", "v", "w", "x", "y", "z",
      "-", "_">>

\* idx = (bit_buf >> bit_len) & 0x3F
group_idx(bit_buf, bit_len) == And3F(ShiftRight(bit_buf, bit_len))

\* mutant: the last, short group is not shifted left
final_idx_mut(bit_buf, bit_len) == And3F(bit_buf)

\* idx = (bit_buf << (6 - bit_len)) & 0x3F
final_idx(bit_buf, bit_len) == And3F(ShiftLeft(bit_buf, 6 - bit_len))

\* while bit_len >= 6
RECURSIVE encode_while(_, _, _)
encode_while(bit_buf, bit_len, res) ==
    IF bit_len >= 6
    THEN encode_while(bit_buf, bit_len - 6,
                      Append(res, _ENCODE_TABLE[group_idx(bit_buf, bit_len - 6) + 1]))
    ELSE [bit_len |-> bit_len, res |-> res]

\* for b in data
RECURSIVE encode_for(_, _, _, _)
encode_for(data, bit_buf, bit_len, res) ==
    IF data = <<>> THEN [bit_buf |-> bit_buf, bit_len |-> bit_len, res |-> res]
    ELSE LET buf == bit_buf \o Bits8(Head(data))
             w == encode_while(buf, bit_len + 8, res)
         IN  encode_for(Tail(data), buf, w.bit_len, w.res)

_plantuml_encode(data) ==
    LET s == encode_for(data, <<>>, 0, <<>>) IN
    IF s.bit_len > 0
    THEN Append(s.res, _ENCODE_TABLE[final_idx(s.bit_buf, s.bit_len) + 1])
    ELSE s.res

\* mutant: the stream ends without an end-of-block code
end_of_block_mut == <<>>

\* the end-of-block code (symbol 256) of the fixed Huffman code: seven zeros
end_of_block == <<0, 0, 0, 0, 0, 0, 0>>

\* the fixed Huffman code of a literal below 144: the eight bits of 48 + c
RECURSIVE literals(_)
literals(data) ==
    IF data = <<>> THEN <<>> ELSE Bits8(48 + Head(data)) \o literals(Tail(data))

\* a DEFLATE bit stream in bytes: each byte is filled from its lowest bit
RECURSIVE pack(_)
pack(bits) ==
    IF bits = <<>> THEN <<>>
    ELSE LET b == [i \in 1..8 |-> IF i <= Len(bits) THEN bits[i] ELSE 0] IN
         <<b[1] + 2 * b[2] + 4 * b[3] + 8 * b[4]
             + 16 * b[5] + 32 * b[6] + 64 * b[7] + 128 * b[8]>>
         \o pack(IF Len(bits) <= 8 THEN <<>> ELSE SubSeq(bits, 9, Len(bits)))

\* zlib.compressobj(level=9, wbits=-15): compress(data) + flush().  For texts
\* this short zlib emits one final block (BFINAL = 1) with the fixed Huffman
\* code (BTYPE = 01) that holds the literals and the end-of-block code, and
\* no header or checksum
raw_deflate(data) == pack(<<1, 1, 0>> \o literals(data) \o end_of_block)

\* text.encode('utf-8') is the sequence of code points for ASCII text
plantuml_text_to_server_key(text) == _plantuml_encode(raw_deflate(text))

\* inputs: byte strings, and diagram texts over "A", "a", "-", ">"
ByteIn == {0, 3, 75, 129, 255}
TextChars == {65, 97, 45, 62}
SeqsUpTo(S, n) == UNION {[1..k -> S] : k \in 0..n}

EncInit ==
    /\ \/ enc_data \in SeqsUpTo(ByteIn, MaxBytes) /\ enc_text = <<>>
       \/ enc_data = <<>> /\ enc_text \in SeqsUpTo(TextChars, MaxText)
    /\ enc_key = <<>>
    /\ encoded = "none"
    /\ ServerIdle /\ MermaidIdle /\ SchemaIdle /\ GraphvizIdle

\* a call _plantuml_encode(enc_data)
PlantumlEncode ==
    /\ encoded = "none"
    /\ enc_key' = _plantuml_encode(enc_data)
    /\ encoded' = "bytes"
    /\ UNCHANGED <<enc_data, enc_text, servervars, mermaidvars, schemavars, graphvizvars>>

\* a call plantuml_text_to_server_key(enc_text); enc_data keeps the
\* compressed stream it hands to _plantuml_encode
TextToServerKey ==
    /\ encoded = "none"
    /\ enc_data' = raw_deflate(enc_text)
    /\ enc_key' = plantuml_text_to_server_key(enc_text)
    /\ encoded' = "text"
    /\ UNCHANGED <<enc_text, servervars, mermaidvars, schemavars, graphvizvars>>

EncNext == PlantumlEncode \/ TextToServerKey

EncSpec == EncInit /\ [][EncNext]_vars

\* ========================================================= render_mermaid
MaxCalls == 2

\* what shutil.which resolves on the PATH of the process: mmdc, else npx,
\* else neither; and the names mkdtemp can draw
PathIn == {"mmdc", "npx", "none"}
DirNames == {"tmpA", "tmpB", "tmpC"}

\* a file of a temporary directory: whether it exists and the source text
\* its bytes hold or were rendered from
NoFile == [there |-> FALSE, src |-> ""]
File(src) == [there |-> TRUE, src |-> src]

\* a call render_mermaid(mmd_text, format) that has just been entered
NewCall(mmd_text, format, path) ==
    [pc |-> "called", mmd_text |-> mmd_text, format |-> format, path |-> path,
     use_npx |-> FALSE, td |-> "", result |-> "", data |-> ""]

\* the arguments of the calls: two diagrams, in the default and another format
MermaidCalls(path) == {NewCall("M1", "png", path), NewCall("M2", "svg", path)}

\* the directory tempfile.TemporaryDirectory() creates for call c
NewDir(name, c) ==
    [name |-> name, owner |-> c, in_file |-> NoFile, out_file |-> NoFile]

\* the directory at path td, and the file system once it is replaced by d
Dir(td) == CHOOSE d \in fs : d.name = td
PutDir(d) == {e \in fs : e.name # d.name} \cup {d}

\* mutant: an exception leaves the function with the directory still on disk
raise_in_with_mut(call, err) == [call EXCEPT !.pc = "done", !.result = err]

\* an exception raised inside `with tempfile.TemporaryDirectory() as td`:
\* the context manager's exit runs before the exception leaves the function
raise_in_with(call, err) == [call EXCEPT !.pc = "cleanup", !.result = err]

MermaidInit ==
    /\ \E path \in PathIn : mm \in [1..MaxCalls -> MermaidCalls(path)]
    /\ fs = {}
    /\ ServerIdle /\ EncIdle /\ SchemaIdle /\ GraphvizIdle

\* shutil.which('mmdc'), then shutil.which('npx'), else RuntimeError
Which(c) ==
    /\ mm[c].pc = "called"
    /\ mm' = [mm EXCEPT ![c] =
                IF mm[c].path = "mmdc" THEN [@ EXCEPT !.pc = "mkdtemp"]
                ELSE IF mm[c].path = "npx" THEN [@ EXCEPT !.pc = "mkdtemp", !.use_npx = TRUE]
                ELSE [@ EXCEPT !.pc = "done", !.result = "RuntimeError: mmdc not found"]]
    /\ UNCHANGED <<fs, servervars, encvars, schemavars, graphvizvars>>

\* mutant: a directory name is drawn whether or not it is taken
FreeNames_mut == DirNames

\* the names tempfile can give a new directory: those no directory has
FreeNames == DirNames \ {d.name : d \in fs}

\* entering `with tempfile.TemporaryDirectory() as td`: a directory under a
\* name that no existing directory has
Mkdtemp(c) ==
    /\ mm[c].pc = "mkdtemp"
    /\ \E name \in FreeNames :
         /\ fs' = fs \cup {NewDir(name, c)}
         /\ mm' = [mm EXCEPT ![c] = [@ EXCEPT !.pc = "write", !.td = name]]
    /\ UNCHANGED <<servervars, encvars, schemavars, graphvizvars>>

\* open(in_file, 'w') and f.write(mmd_text); either may raise OSError, and
\* the file may by then exist, empty
WriteInput(c) ==
    /\ mm[c].pc = "write"
    /\ \E written \in BOOLEAN, created \in BOOLEAN :
         IF written THEN
            /\ fs' = PutDir([Dir(mm[c].td) EXCEPT !.in_file = File(mm[c].mmd_text)])
            /\ mm' = [mm EXCEPT ![c] = [@ EXCEPT !.pc = "popen"]]
         ELSE
            /\ fs' = IF created
                     THEN PutDir([Dir(mm[c].td) EXCEPT !.in_file = File("")])
                     ELSE fs
            /\ mm' = [mm EXCEPT ![c] = raise_in_with(@, "OSError")]
    /\ UNCHANGED <<servervars, encvars, schemavars, graphvizvars>>

\* subprocess.Popen(cmd) and p.communicate(): the CLI reads in_file, may
\* write out_file, and exits with a return code
RunCli(c) ==
    /\ mm[c].pc = "popen"
    /\ \E returncode \in {0, 1}, wrote \in BOOLEAN :
         /\ fs' = IF wrote
                  THEN PutDir([Dir(mm[c].td) EXCEPT
                                  !.out_file = File(Dir(mm[c].td).in_file.src)])
                  ELSE fs
         /\ mm' = [mm EXCEPT ![c] =
                     IF returncode # 0 THEN raise_in_with(@, "RuntimeError: mmdc failed")
                     ELSE [@ EXCEPT !.pc = "read"]]
    /\ UNCHANGED <<servervars, encvars, schemavars, graphvizvars>>

\* open(out_file, 'rb') and `return f.read()` from inside the with block
ReadOutput(c) ==
    /\ mm[c].pc = "read"
    /\ mm' = [mm EXCEPT ![c] =
                IF Dir(mm[c].td).out_file.there
                THEN [@ EXCEPT !.pc = "cleanup", !.result = "returned",
                               !.data = Dir(mm[c].td).out_file.src]
                ELSE raise_in_with(@, "FileNotFoundError")]
    /\ UNCHANGED <<fs, servervars, encvars, schemavars, graphvizvars>>

\* TemporaryDirectory.__exit__: the directory at td is removed with all it
\* holds, and the call returns or raises
Cleanup(c) ==
    /\ mm[c].pc = "cleanup"
    /\ fs' = {d \in fs : d.name # mm[c].td}
    /\ mm' = [mm EXCEPT ![c] = [@ EXCEPT !.pc = "done"]]
    /\ UNCHANGED <<servervars, encvars, schemavars, graphvizvars>>

MermaidNext ==
    \/ \E c \in DOMAIN mm : Which(c)
    \/ \E c \in DOMAIN mm : Mkdtemp(c)
    \/ \E c \in DOMAIN mm : WriteInput(c)
    \/ \E c \in DOMAIN mm : RunCli(c)
    \/ \E c \in DOMAIN mm : ReadOutput(c)
    \/ \E c \in DOMAIN mm : Cleanup(c)

MermaidSpec == MermaidInit /\ [][MermaidNext]_vars

\* ===================================================== the schema builders
\* tool descriptors: arguments named text and format, or fewer, each with a
\* description in which any of the type words occur; and the registry's own
TypeWords == {"string", "int", "number", "bool"}
ArgNames == {"text", "format"}
DescIn == {Desc("d", words) : words \in SUBSET TypeWords}
ToolsIn ==
    {[name |-> "x.render", description |-> "x", arguments |-> args] :
        args \in UNION {[names -> DescIn] : names \in SUBSET ArgNames}}
    \cup {get_tools_list[i] : i \in 1..Len(get_tools_list)}

SchemaInit ==
    /\ tool_in \in ToolsIn
    /\ server_props = <<>> /\ wrapper_props = <<>> /\ built = {}
    /\ ServerIdle /\ EncIdle /\ MermaidIdle /\ GraphvizIdle

\* a call build_tool_schema(tool_in) in the server
BuildToolSchema ==
    /\ "server" \notin built
    /\ server_props' = build_tool_schema(tool_in)
    /\ built' = built \cup {"server"}
    /\ UNCHANGED <<tool_in, wrapper_props, servervars, encvars, mermaidvars, graphvizvars>>

\* a call _build_properties_from_tool(tool_in) in the wrapper
BuildPropertiesFromTool ==
    /\ "wrapper" \notin built
    /\ wrapper_props' = _build_properties_from_tool(tool_in)
    /\ built' = built \cup {"wrapper"}
    /\ UNCHANGED <<tool_in, server_props, servervars, encvars, mermaidvars, graphvizvars>>

SchemaNext == BuildToolSchema \/ BuildPropertiesFromTool

SchemaSpec == SchemaInit /\ [][SchemaNext]_vars

\* ======================================================== render_graphviz
\* the arguments of a call, and what its surroundings can do: the import of
\* graphviz fails, Source.pipe raises or returns bytes; `dot` is on the PATH
\* or not; the dot process writes stdout and stderr and exits with a code
DotSrcIn == {"G1", "G2"}
DotFormatIn == {"png", "svg", "gif"}
LibIn == {"ImportError", "PipeRaises", "Returns"}
LibOutIn == {<<60>>, <<137>>}
DotOutIn == {<<>>, <<62>>}
DotErrIn == {"", "syntax error in line 1"}
ReturnCodes == {0, 1}

NoMsg == Msg("", "")

\* a call render_graphviz(dot_src, format) that has just been entered
NewGraphvizCall(dot_src, format) ==
    [pc |-> "called", dot_src |-> dot_src, format |-> format,
     lib |-> "untried", dot_bin |-> "unset", returncode |-> 0,
     out |-> <<>>, err |-> "", result |-> "", data |-> <<>>, message |-> NoMsg]

\* mutant: the error does not carry the captured standard error
dot_failed_mut(err) == Msg("dot failed", "")

\* RuntimeError(f'dot failed: {err.decode()}')
dot_failed(err) == Msg("dot failed: ", err)

GraphvizInit ==
    /\ gv \in {NewGraphvizCall(s, f) : s \in DotSrcIn, f \in DotFormatIn}
    /\ ServerIdle /\ EncIdle /\ MermaidIdle /\ SchemaIdle

\* the try block: import graphviz, Source(dot_src).pipe(format=format);
\* `except Exception` catches whatever either of them raises
TryLibrary ==
    /\ gv.pc = "called"
    /\ \E lib \in LibIn, out \in LibOutIn :
         gv' = IF lib = "Returns"
               THEN [gv EXCEPT !.pc = "done", !.lib = lib, !.out = out,
                               !.result = "returned", !.data = out]
               ELSE [gv EXCEPT !.pc = "fallback", !.lib = lib]
    /\ UNCHANGED <<servervars, encvars, mermaidvars, schemavars>>

\* dot_bin = shutil.which('dot'); RuntimeError when there is none
WhichDot ==
    /\ gv.pc = "fallback"
    /\ \E found \in BOOLEAN :
         gv' = IF found THEN [gv EXCEPT !.pc = "popen", !.dot_bin = "dot"]
               ELSE [gv EXCEPT !.pc = "done", !.dot_bin = "none", !.result = "raised",
                       !.message = Msg("graphviz not available: install python-graphviz or dot binary", "")]
    /\ UNCHANGED <<servervars, encvars, mermaidvars, schemavars>>

\* Popen([dot_bin, -T<format>]), communicate(dot_src), the returncode test
RunDot ==
    /\ gv.pc = "popen"
    /\ \E returncode \in ReturnCodes, out \in DotOutIn, err \in DotErrIn :
         gv' = IF returncode # 0
               THEN [gv EXCEPT !.pc = "done", !.returncode = returncode, !.out = out,
                               !.err = err, !.result = "raised",
                               !.message = dot_failed(err)]
               ELSE [gv EXCEPT !.pc = "done", !.returncode = returncode, !.out = out,
                               !.err = err, !.result = "returned", !.data = out]
    /\ UNCHANGED <<servervars, encvars, mermaidvars, schemavars>>

GraphvizNext == TryLibrary \/ WhichDot \/ RunDot

GraphvizSpec == GraphvizInit /\ [][GraphvizNext]_vars

\* ================================================================ claims
\* the names and methods as the specification states them
ClaimedTools == {"plantuml.render", "graphviz.render", "mermaid.render"}
ClaimedToolOrder == <<"plantuml.render", "graphviz.render", "mermaid.render">>
ClaimedMethods == {"initialize", "notifications/initialized", "tools/list",
                   "tools/call", "ping"}

OnStdio == mode \in {"mcp", "wrapper"}
IsObject(l) == l.kind = "obj"
IsToolsCall(l) == IsObject(l) /\ l.method = "tools/call"

\* the JSON-RPC messages that answer the last line or POST /sse request
RpcAnswers ==
    IF endpoint \in {"stdin", "unread"} THEN stdout
    ELSE IF endpoint = "/sse" /\ "jsonrpc" \in DOMAIN http.body THEN <<http.body>>
    ELSE <<>>

AnsweredWithError(code) ==
    /\ Len(RpcAnswers) = 1
    /\ RpcAnswers[1].kind = "error"
    /\ RpcAnswers[1].error.code = code

\* the `arguments` a tools/call or a /call_tool body carries hold no `text`
NoTextIn(arguments) ==
    arguments.shape \in {"absent", "dict"} /\ arguments.text = ABSENT

\* C1: a stdio loop (run_mcp_mode, the wrapper's main) stops only at end of
\* input: whatever the lines hold it is never ended by an unhandled
\* exception, and no line is left unread.
C1_LoopStopsOnlyAtEof ==
    OnStdio => (pc # "crashed" /\ endpoint # "unread")

\* C2: a non-blank stdin line that is not well-formed JSON gets exactly one
\* response, the error -32700 with id null, and the loop goes on to the
\* next line.
C2_MalformedLineGetsParseError ==
    (OnStdio /\ endpoint = "stdin" /\ ~Blank(line) /\ ~WellFormedJSON(line))
        => /\ Len(stdout) = 1
           /\ stdout[1].kind = "error"
           /\ stdout[1].error.code = -32700
           /\ stdout[1].id = NULL
           /\ pc # "crashed"

\* C3: on every JSON-RPC transport a tools/call whose name is not one of the
\* three tools is answered with the error -32601, whatever the arguments
\* (for the wrapper: also when the HTTP server answered its request).
C3_UnknownToolIsNotFound ==
    (/\ endpoint \in {"stdin", "/sse"}
     /\ IsToolsCall(line) /\ line.params.shape # "null"
     /\ line.params.name \notin ClaimedTools
     /\ upstream \in {"none", "ok"})
        => AnsweredWithError(-32601)

\* C4: on every JSON-RPC transport a tools/call for one of the three tools
\* whose arguments carry no `text` is answered with the error -32602 (for the
\* wrapper: also when the HTTP server answered its request).
C4_MissingTextIsInvalidParams ==
    (/\ endpoint \in {"stdin", "/sse"}
     /\ IsToolsCall(line) /\ line.params.shape = "obj"
     /\ line.params.name \in ClaimedTools
     /\ NoTextIn(line.params.arguments)
     /\ upstream \in {"none", "ok"})
        => AnsweredWithError(-32602)

\* C5, as stated: POST /call_tool with a name that is not one of the three
\* tools answers 404 whatever the arguments are, and invokes no renderer.
C5_UnknownToolIs404 ==
    (/\ endpoint = "/call_tool"
     /\ line.params.name \notin ClaimedTools \cup {ABSENT})
        => (http.status = 404 /\ calls = <<>>)

\* C5, amended: POST /call_tool with a name that is not one of the three
\* tools answers 404 whenever `arguments` is a JSON object or is missing,
\* whatever keys it holds; when `arguments` is not a JSON object the request
\* validation answers 422; no renderer is invoked either way.
C5_UnknownToolIs404ForObjectArguments ==
    (/\ endpoint = "/call_tool"
     /\ line.params.name \notin ClaimedTools \cup {ABSENT})
        => /\ calls = <<>>
           /\ http.status = IF line.params.arguments.shape = "notdict" THEN 422 ELSE 404

C5_Witness ==
    /\ endpoint = "/call_tool"
    /\ line.params.name = "nonexistent.tool"
    /\ line.params.arguments.shape = "dict"
    /\ line.params.arguments.text = ABSENT
    /\ http.status = 404

ListedNames(tools) == [i \in 1..Len(tools) |-> tools[i].name]

\* C8: tools/list and POST /list_tools always return exactly the three tools,
\* in order, on every transport and after any sequence of earlier requests
\* (for the wrapper: whenever the HTTP server answered its request).
C8_ToolsListAlwaysThreeTools ==
    /\ endpoint = "/list_tools"
         => (http.status = 200 /\ ListedNames(http.body.tools) = ClaimedToolOrder)
    /\ (/\ endpoint \in {"stdin", "unread", "/sse"}
        /\ IsObject(line) /\ line.method = "tools/list"
        /\ upstream \in {"none", "ok"})
         => /\ Len(RpcAnswers) = 1
            /\ RpcAnswers[1].kind = "result"
            /\ ListedNames(RpcAnswers[1].result.tools) = ClaimedToolOrder

\* C9: a ping always yields the success response with the empty object and
\* the request's id, on every JSON-RPC transport and whatever came before it.
C9_PingAlwaysAnswered ==
    (/\ endpoint \in {"stdin", "unread", "/sse"}
     /\ IsObject(line) /\ line.method = "ping")
        => RpcAnswers = <<[jsonrpc |-> "2.0", id |-> Get(line.id, NULL),
                           kind |-> "result", result |-> EmptyObject]>>

\* C10: on every JSON-RPC transport a request whose method is none of the
\* five (or that has no method) is answered with the error -32601, and no
\* renderer is invoked.
C10_UnknownMethodIsNotFound ==
    (/\ endpoint \in {"stdin", "/sse"}
     /\ IsObject(line)
     /\ line.method \notin ClaimedMethods)
        => (AnsweredWithError(-32601) /\ calls = <<>>)

C10_Witness ==
    /\ mode = "mcp" /\ endpoint = "stdin" /\ nread = 2
    /\ IsObject(line) /\ line.method = ABSENT
    /\ AnsweredWithError(-32601)

\* C11: notifications/initialized is fire-and-forget on both JSON-RPC
\* transports: handling it emits no JSON-RPC message (no line on stdout, no
\* envelope in the POST /sse response), invokes no renderer, and leaves the
\* stdio loop running, so that the next request is handled like a first one.
C11_InitializedIsFireAndForget ==
    (IsObject(line) /\ line.method = "notifications/initialized"
        /\ endpoint \in {"stdin", "/sse"})
    => /\ RpcAnswers = <<>>
       /\ calls = <<>>
       /\ endpoint = "stdin" => (stdout = <<>> /\ pc # "crashed")
       /\ endpoint = "/sse" => (http.status = 200 /\ "jsonrpc" \notin DOMAIN http.body)

C11_Witness ==
    /\ endpoint = "/sse" /\ IsObject(line)
    /\ line.method = "notifications/initialized" /\ line.id = "7"
    /\ http.body = [status |-> "ok"]

\* the format a rendering request asks for: the `format` argument, or the
\* tool's default as the specification states it
ClaimedDefaultFormat(name) == IF name = "plantuml.render" THEN "svg" ELSE "png"
RequestedFormat ==
    IF line.params.arguments.format = ABSENT
    THEN ClaimedDefaultFormat(line.params.name)
    ELSE line.params.arguments.format

\* the request was rendered and answered with a success
RenderedOk ==
    /\ calls # <<>>
    /\ \/ endpoint = "/call_tool" /\ http.status = 200 /\ http.body.ok
       \/ endpoint \in {"stdin", "/sse"} /\ Len(RpcAnswers) = 1
            /\ RpcAnswers[1].kind = "result"

\* the content type that success reports
ReportedContentType ==
    IF endpoint = "/call_tool" THEN http.body.result.content_type
    ELSE RpcAnswers[1].result.content[2].mimeType

\* C12: on every transport a successful render reports image/svg+xml exactly
\* when the requested format is "svg" and image/png for every other format,
\* unrecognised ones included, whatever bytes the renderer returned.
C12_ContentTypeFollowsFormat ==
    RenderedOk =>
        ReportedContentType =
            (IF RequestedFormat = "svg" THEN "image/svg+xml" ELSE "image/png")

C12_Witness ==
    /\ RenderedOk
    /\ endpoint = "/sse"
    /\ RequestedFormat = "gif"
    /\ outcome.data = <<60, 115>>
    /\ ReportedContentType = "image/png"

\* C13: the adapter is invoked with the format the request carries, and with
\* svg (plantuml.render) or png (graphviz.render, mermaid.render) when it
\* carries none, on POST /call_tool, on POST /sse and on stdio alike.
C13_DefaultFormatPerTool ==
    calls # <<>> =>
        /\ Len(calls) = 1
        /\ calls[1].format = RequestedFormat

C13_Witness ==
    /\ mode = "mcp" /\ endpoint = "stdin"
    /\ calls # <<>>
    /\ line.params.name = "plantuml.render"
    /\ line.params.arguments.format = ABSENT
    /\ calls[1].format = "svg"

\* C14: graphviz.render whose arguments carry the source under the key `dot`
\* and no `text` is answered with a success: 200 with ok = true on POST
\* /call_tool, a JSON-RPC result with content on POST /sse.
C14_DotKeyIsRendered ==
    (/\ endpoint \in {"/call_tool", "/sse"}
     /\ IsObject(line)
     /\ endpoint = "/sse" => line.method = "tools/call"
     /\ line.params.shape = "obj"
     /\ line.params.name = "graphviz.render"
     /\ line.params.arguments.shape = "dict"
     /\ line.params.arguments.text = ABSENT
     /\ line.params.arguments.dot # ABSENT)
        => /\ http.status = 200
           /\ endpoint = "/call_tool" => ("ok" \in DOMAIN http.body /\ http.body.ok)
           /\ endpoint = "/sse" =>
                (Len(RpcAnswers) = 1 /\ RpcAnswers[1].kind = "result")

\* the alphabet as the specification states it: 0-9, A-Z, a-z, "-", "_"
ClaimedAlphabet ==
    <<"0", "1", "2", "3", "4", "5", "6", "7", "8", "9">>
    \o <<"A", "B", "C", "D", "E", "F", "G", "H", "I", "J", "K", "L", "M">>
    \o <<"N", "O", "P", "Q", "R", "S", "T", "U", "V", "W", "X", "Y", "Z">>
    \o <<"a", "b", "c", "d", "e", "f", "g", "h", "i", "j", "k", "l", "m">>
    \o <<"n", "o", "p", "q", "r", "s", "t", "u", "v", "w", "x", "y", "z">>
    \o <<"-", "_">>

\* C15: for a byte sequence of length n the encoder returns characters of the
\* alphabet 0-9 A-Z a-z - _ only, never the padding "=", and exactly
\* ceil(8n / 6) of them.
C15_EncoderAlphabetAndLength ==
    encoded # "none" =>
        /\ \A i \in 1..Len(enc_key) :
              /\ \E j \in 1..Len(ClaimedAlphabet) : enc_key[i] = ClaimedAlphabet[j]
              /\ enc_key[i] # "="
        /\ Len(enc_key) = (8 * Len(enc_data) + 5) \div 6

C15_Witness ==
    /\ encoded = "bytes"
    /\ enc_data = <<255, 255>>
    /\ enc_key = <<"_", "_", "y">>

\* bit k (from 0) of the input read most significant bit first, zero past its end
InputBit(data, k) ==
    IF k < 8 * Len(data) THEN (data[(k \div 8) + 1] \div 2^(7 - (k % 8))) % 2 ELSE 0

\* the number that bits 6i .. 6i+5 of the input spell
SixBits(data, i) ==
    32 * InputBit(data, 6 * i) + 16 * InputBit(data, 6 * i + 1)
    + 8 * InputBit(data, 6 * i + 2) + 4 * InputBit(data, 6 * i + 3)
    + 2 * InputBit(data, 6 * i + 4) + InputBit(data, 6 * i + 5)

\* C16: output character i (from 0) is the alphabet entry indexed by bits
\* 6i .. 6i+5 of the input, most significant bit first, with zeros for the
\* bits past the end of the input: no bit of an earlier group shows in it.
C16_EncoderIsBitwiseMsbFirst ==
    encoded # "none" =>
        \A i \in 1..Len(enc_key) :
            enc_key[i] = ClaimedAlphabet[SixBits(enc_data, i - 1) + 1]

C16_Witness ==
    /\ encoded = "bytes"
    /\ enc_data = <<129, 3>>
    /\ enc_key = <<"W", "G", "C">>

\* C17 as stated: plantuml_text_to_server_key of the empty string compresses
\* to an empty stream and returns the empty string.
C17_EmptyTextGivesEmptyKey ==
    (encoded = "text" /\ enc_text = <<>>) => (enc_data = <<>> /\ enc_key = <<>>)

\* C17, amended: plantuml_text_to_server_key of the empty string compresses
\* to the two bytes 03 00 (a final block that holds the end-of-block code
\* alone) and returns the three characters 0m0.
C17_EmptyTextGivesEmptyBlockKey ==
    (encoded = "text" /\ enc_text = <<>>)
        => (enc_data = <<3, 0>> /\ enc_key = <<"0", "m", "0">>)

C17_Witness ==
    /\ encoded = "text" /\ enc_text = <<>>
    /\ Len(enc_data) = 2 /\ Len(enc_key) = 3

\* C18: initialize is answered with the static announcement (protocol
\* version "2024-11-05", empty tools, prompts and resources capabilities,
\* the server's name and version) on every JSON-RPC transport, whatever
\* parameters the request carries or omits.
C18_InitializeIsStatic ==
    (IsObject(line) /\ line.method = "initialize" /\ endpoint \in {"stdin", "/sse"})
    => /\ Len(RpcAnswers) = 1
       /\ RpcAnswers[1].kind = "result"
       /\ RpcAnswers[1].result.protocolVersion = "2024-11-05"
       /\ RpcAnswers[1].result.capabilities =
            [tools |-> [keys |-> {}], prompts |-> [keys |-> {}],
             resources |-> [keys |-> {}]]
       /\ DOMAIN RpcAnswers[1].result.serverInfo = {"name", "version"}

\* C19: requests are handled state-free.  tools/list and ping need no earlier
\* initialize, and their answer is the one the same request gets as the
\* first request, whatever requests came before it on the same stream or
\* were served on other HTTP connections.
C19_AnswerIsStateFree ==
    (IsObject(line) /\ line.method \in {"tools/list", "ping"})
    => /\ (mode = "mcp" /\ endpoint \in {"stdin", "unread"})
            => stdout = run_mcp_mode_line(line, NoOutcome).out
       /\ endpoint = "/sse" => http = mcp_sse_endpoint(line, NoOutcome).response

\* C20: once a render_mermaid call has returned or raised, no temporary
\* directory it created exists any more, nor the files in it, whether it
\* returned bytes or failed on the write, on the CLI's return code or on a
\* missing output file; a call for which no CLI is found raises without
\* ever having created a directory.
C20_MermaidTempDirIsRemoved ==
    \A c \in DOMAIN mm :
        /\ mm[c].pc = "done" => ~ \E d \in fs : d.owner = c
        /\ mm[c].result = "RuntimeError: mmdc not found"
              => (mm[c].pc = "done" /\ mm[c].td = "")
        /\ mm[c].pc \in {"called", "mkdtemp"}
              => (mm[c].td = "" /\ ~ \E d \in fs : d.owner = c)

C20_Witness ==
    \E c \in DOMAIN mm :
        /\ mm[c].pc = "done"
        /\ mm[c].result = "FileNotFoundError"
        /\ mm[c].td # ""
        /\ ~ \E d \in fs : d.owner = c

\* a call that is inside its with block: its directory has been created and
\* not yet removed
InWithBlock(c) == mm[c].pc \in {"write", "popen", "read", "cleanup"}

\* C21: under any interleaving of render_mermaid calls each call works in a
\* directory of its own: two calls inside their with blocks never hold the
\* same path, the directory at a call's path is the one it created and
\* holds only files written from that call's source text, and the bytes a
\* call returns were rendered from its own source text.
C21_MermaidDirsArePrivate ==
    \A c \in DOMAIN mm :
        /\ InWithBlock(c) =>
             /\ \A o \in DOMAIN mm : (o # c /\ InWithBlock(o)) => mm[o].td # mm[c].td
             /\ \E d \in fs : d.name = mm[c].td
             /\ \A d \in fs : d.name = mm[c].td =>
                  /\ d.owner = c
                  /\ d.in_file.there => d.in_file.src \in {mm[c].mmd_text, ""}
                  /\ d.out_file.there => d.out_file.src = mm[c].mmd_text
        /\ mm[c].result = "returned" => mm[c].data = mm[c].mmd_text

C21_Witness ==
    \E c \in DOMAIN mm, o \in DOMAIN mm :
        /\ mm[c].mmd_text # mm[o].mmd_text
        /\ mm[c].pc = "read" /\ mm[o].pc = "cleanup"
        /\ mm[o].result = "returned" /\ mm[o].data = mm[o].mmd_text
        /\ \E d \in fs : d.name = mm[c].td /\ d.out_file = File(mm[c].mmd_text)
        /\ \E d \in fs : d.name = mm[o].td /\ d.out_file = File(mm[o].mmd_text)

\* standard base64 as RFC 4648 defines it, and its decoding
StandardAlphabet ==
    <<"A", "B", "C", "D", "E", "F", "G", "H", "I", "J", "K", "L", "M">>
    \o <<"N", "O", "P", "Q", "R", "S", "T", "U", "V", "W", "X", "Y", "Z">>
    \o <<"a", "b", "c", "d", "e", "f", "g", "h", "i", "j", "k", "l", "m">>
    \o <<"n", "o", "p", "q", "r", "s", "t", "u", "v", "w", "x", "y", "z">>
    \o <<"0", "1", "2", "3", "4", "5", "6", "7", "8", "9", "+", "/">>

IsStandardBase64(s) ==
    /\ Len(s) % 4 = 0
    /\ \A i \in 1..Len(s) :
          \/ \E j \in 1..64 : s[i] = StandardAlphabet[j]
          \/ s[i] = "=" /\ i > Len(s) - 2 /\ (i < Len(s) => s[i + 1] = "=")

SextetOf(ch) == IF ch = "=" THEN 0 ELSE (CHOOSE j \in 1..64 : StandardAlphabet[j] = ch) - 1

RECURSIVE StandardDecode(_)
StandardDecode(s) ==
    IF s = <<>> THEN <<>>
    ELSE LET n == 262144 * SextetOf(s[1]) + 4096 * SextetOf(s[2])
                  + 64 * SextetOf(s[3]) + SextetOf(s[4])
             bytes == <<n \div 65536, (n \div 256) % 256, n % 256>>
         IN  (IF s[3] = "=" THEN SubSeq(bytes, 1, 1)
              ELSE IF s[4] = "=" THEN SubSeq(bytes, 1, 2)
              ELSE bytes) \o StandardDecode(SubSeq(s, 5, Len(s)))

\* the base64 text a success carries
ReportedBase64 ==
    IF endpoint = "/call_tool" THEN http.body.result.data_base64
    ELSE RpcAnswers[1].result.content[2].data

\* C22: a successful tools/call answers with a content of exactly a text
\* item followed by an image item whose mimeType is the content type derived
\* from the format; its data, like data_base64 on POST /call_tool, is
\* standard base64 that decodes to exactly the bytes the adapter returned.
C22_Base64RoundTrip ==
    RenderedOk =>
        /\ IsStandardBase64(ReportedBase64)
        /\ StandardDecode(ReportedBase64) = outcome.data
        /\ endpoint \in {"stdin", "/sse"} =>
             LET content == RpcAnswers[1].result.content IN
             /\ Len(content) = 2
             /\ content[1].type = "text"
             /\ content[2].type = "image"
             /\ content[2].mimeType =
                  (IF RequestedFormat = "svg" THEN "image/svg+xml" ELSE "image/png")

C22_Witness ==
    /\ RenderedOk
    /\ mode = "mcp" /\ endpoint = "stdin"
    /\ outcome.data = <<251, 255, 191>>
    /\ ReportedBase64 = <<"+", "/", "+", "/">>

\* the type the specification infers from the type words of a description
ClaimedType(words) ==
    IF "string" \in words THEN "string"
    ELSE IF "int" \in words \/ "number" \in words THEN "number"
    ELSE IF "bool" \in words THEN "boolean"
    ELSE "string"

\* C23: both schema builders give every argument the type that its
\* description alone determines (string, else int or number, else bool,
\* else string), so they return the same properties for every descriptor,
\* and every property of the three registered tools is of type string.
C23_SchemaTypeFromDescription ==
    /\ "server" \in built =>
         \A a \in DOMAIN tool_in.arguments :
             /\ server_props[a].type = ClaimedType(tool_in.arguments[a].words)
             /\ tool_in.name \in ClaimedTools => server_props[a].type = "string"
    /\ "wrapper" \in built =>
         \A a \in DOMAIN tool_in.arguments :
             /\ wrapper_props[a].type = ClaimedType(tool_in.arguments[a].words)
             /\ tool_in.name \in ClaimedTools => wrapper_props[a].type = "string"
    /\ built = {"server", "wrapper"} => server_props = wrapper_props

\* C24 as stated, the library binding being resolvable when its import
\* succeeds: render_graphviz fails exactly when neither the binding nor dot
\* is resolvable or when dot exits non-zero, then with dot's standard error
\* in the message; in every other case it returns the renderer's bytes.
C24_GraphvizFailsOnlyWithoutBoth ==
    gv.pc = "done" =>
        /\ gv.result = "raised" <=>
              \/ gv.lib = "ImportError" /\ gv.dot_bin = "none"
              \/ gv.dot_bin = "dot" /\ gv.returncode # 0
        /\ (gv.dot_bin = "dot" /\ gv.returncode # 0)
              => gv.message = Msg("dot failed: ", gv.err)
        /\ gv.result = "returned" => gv.data = gv.out

\* C24, amended: render_graphviz returns the library binding's bytes when
\* the binding imports and renders without raising, and then never looks
\* for dot.  After any exception on that path, a failed render included, it
\* falls back to dot: it fails when dot is not on the PATH, it fails with
\* dot's standard error in the message when dot exits non-zero, and it
\* returns dot's standard output otherwise.
C24_GraphvizFallsBackOnAnyException ==
    gv.pc = "done" =>
        /\ gv.lib = "Returns" =>
              (gv.result = "returned" /\ gv.data = gv.out /\ gv.dot_bin = "unset")
        /\ (gv.lib # "Returns" /\ gv.dot_bin = "none") =>
              (gv.result = "raised" /\ gv.message.arg = "")
        /\ (gv.lib # "Returns" /\ gv.dot_bin = "dot" /\ gv.returncode # 0) =>
              (gv.result = "raised" /\ gv.message = Msg("dot failed: ", gv.err))
        /\ (gv.lib # "Returns" /\ gv.dot_bin = "dot" /\ gv.returncode = 0) =>
              (gv.result = "returned" /\ gv.data = gv.out)
        /\ gv.lib # "Returns" => gv.dot_bin # "unset"

C24_Witness ==
    /\ gv.pc = "done"
    /\ gv.lib = "PipeRaises" /\ gv.dot_bin = "dot" /\ gv.returncode = 1
    /\ gv.result = "raised"
    /\ gv.message = Msg("dot failed: ", "syntax error in line 1")

\* C25: every JSON-RPC response to a request that parsed as a JSON object
\* carries that request's id, null when it has none, for results and for
\* every error alike, the -32603 answer to a handler that raised included,
\* on POST /sse, in the built-in stdio mode and in the wrapper.
C25_ResponseCarriesRequestId ==
    (IsObject(line) /\ endpoint \in {"stdin", "/sse"})
    => \A i \in 1..Len(RpcAnswers) : RpcAnswers[i].id = Get(line.id, NULL)

\* C26: on the stdio transport a blank line and notifications/initialized
\* produce no response line and every other line produces exactly one,
\* written in full before the next line is read.
C26_OneResponsePerLine ==
    endpoint = "stdin" =>
        Len(stdout) =
            (IF Blank(line) \/ (IsObject(line) /\ line.method = "notifications/initialized")
             THEN 0 ELSE 1)

\* a rendering request, and its tool name and arguments
IsRenderRequest ==
    \/ endpoint = "/call_tool"
    \/ endpoint \in {"stdin", "/sse"} /\ IsToolsCall(line) /\ line.params.shape = "obj"
RequestHasText ==
    /\ line.params.arguments.shape = "dict"
    /\ line.params.arguments.text \notin {ABSENT, ""}

====
